---- MODULE Spec2Model ----
(***************************************************************************)
(* Bonding curves (curve_modelling/bonding_curves.py): the four curve      *)
(* variants, their cost integral and its inversion, and the stateful       *)
(* buy / sell protocol with the graduation threshold; the Monte Carlo      *)
(* engine (curve_modelling/simulation.py) that trades on a copy of a curve *)
(* with drawn directions and sizes; and calculate_metrics                  *)
(* (curve_modelling/metrics.py).                                           *)
(*                                                                         *)
(* Numbers.  The program computes in double precision.  The model computes *)
(* on an integer grid: a supply is a whole number of token grid units      *)
(* (one unit is the bisection tolerance, 0.001 token), a currency amount a *)
(* whole number of currency grid units.  Sums, differences and products of *)
(* grid values are exact; every operation whose exact result is not on the *)
(* grid (sqrt, log, a quotient) is rounded to the nearest grid value, as   *)
(* the floating-point operation is rounded to the nearest double.  The     *)
(* shape parameters of the modelled curves are chosen so that every cost   *)
(* integral is exact on the grid; only the inversions round.               *)
(***************************************************************************)
EXTENDS Integers, Sequences, FiniteSets, TLC

(***************************************************************************)
(* Bounds of the model.                                                    *)
(***************************************************************************)
\* total_supply of every modelled curve, in token grid units
TotalSupply == 6
\* graduation_threshold of every modelled curve, in currency grid units
GraduationThreshold == 20
\* number of buy / sell calls followed on one curve instance
MaxCalls == 4
\* binary digits of the currency grid of the exponential curve: one
\* currency unit of that curve is 2^FracBits grid units
FracBits == 3
\* a returned price is rounded to 1/PriceScale
PriceScale == 100
\* largest num_trades passed to run_simulation
NumTrades == 2
\* num_simulations passed to run_batch_simulations
NumSimulations == 2

(***************************************************************************)
(* Rounded arithmetic.                                                     *)
(***************************************************************************)
Max(a, b) == IF a >= b THEN a ELSE b

Min(a, b) == IF a <= b THEN a ELSE b

Abs(a) == IF a >= 0 THEN a ELSE 0 - a

\* n / d for d > 0, rounded to the nearest integer (halves upwards)
RoundDiv(n, d) == (2 * n + d) \div (2 * d)

\* a price n / d, d > 0, in units of 1/PriceScale
FDiv(n, d) == RoundDiv(PriceScale * n, d)

\* math.sqrt(r) for r >= 0, rounded to the nearest grid value: the n with
\* n - 1/2 <= sqrt(r) < n + 1/2 (no integer r has sqrt(r) = n + 1/2)
Sqrt(r) == CHOOSE n \in 0..(r + 1) : (n = 0 \/ (2 * n - 1) * (2 * n - 1) <= 4 * r) /\ 4 * r < (2 * n + 1) * (2 * n + 1)

\* np.exp(b * s) with b counted in units of ln 2, in currency grid units:
\* 2^e scaled by 2^FracBits; exact for e >= -FracBits
Exp(e) == 2 ^ (e + FracBits)

\* np.log(v) / ln 2 for a grid value v >= 1 (that is v / 2^FracBits), rounded
\* to the nearest integer: the m with m - 1/2 <= log2(v) < m + 1/2, less
\* FracBits (log2(v) is never m + 1/2: sqrt(2) is irrational)
Log(v) == (CHOOSE m \in 0..14 : 2 ^ (2 * m) <= 2 * v * v /\ v * v < 2 ^ (2 * m + 1)) - FracBits

\* np.log(n) for n = 1..24 in units of 1/16, rounded to the nearest unit
LnTable == <<0, 11, 18, 22, 26, 29, 31, 33, 35, 37, 38, 40, 41, 42, 43, 44, 45, 46, 47, 48, 49, 49, 50, 51>>

\* np.log(n / 2) for n = 1..9 in units of 1/16, rounded to the nearest unit
LnHalfTable == <<-11, 0, 6, 11, 15, 18, 20, 22, 24>>

\* np.log(n / 25) for n = 1..27 in units of 1/65536, rounded to the nearest unit
LnFineTable == <<-210952, -165526, -138954, -120100, -105476, -93527, -83425, -74674, -66955,
                 -60050, -53804, -48101, -42856, -37999, -33477, -29248, -25275, -21529,
                 -17985, -14624, -11426, -8378, -5464, -2675, 0, 2570, 5044>>


(***************************************************************************)
(* The modelled curve instances: constructor arguments.  Linear and        *)
(* Polynomial parameters are per grid unit; for the Exponential curve with *)
(* b # 0, a and b are counted in units of ln 2, so that e^(b*s) = 2^(b*s). *)
(* The Logarithmic curve counts currency in units of 1/16; its field unit  *)
(* is the number of token grid units in one token: s and b are counted in  *)
(* 1/unit token, so that the price is a * ln((s + b) / unit).              *)
(***************************************************************************)
BondingCurve(shape) == [total_supply |-> TotalSupply, graduation_threshold |-> GraduationThreshold] @@ shape

LinearBondingCurve == BondingCurve([kind |-> "Linear", k |-> 2, multiplier |-> 1])

ExponentialBondingCurve == BondingCurve([kind |-> "Exponential", a |-> 1, b |-> 1])

FlatExponentialBondingCurve == BondingCurve([kind |-> "Exponential", a |-> 2, b |-> 0])

PolynomialBondingCurve == BondingCurve([kind |-> "Polynomial", coefficients |-> <<1, 2>>])

\* a coefficient list whose price 3 - 2*s turns negative inside the supply range
FallingPolynomialBondingCurve == BondingCurve([kind |-> "Polynomial", coefficients |-> <<3, -2>>])

LogarithmicBondingCurve == BondingCurve([kind |-> "Logarithmic", a |-> 1, b |-> 2, unit |-> 1])

\* b = 1/2: the price a * ln(s + b) is negative below s = 1/2
LowLogarithmicBondingCurve == BondingCurve([kind |-> "Logarithmic", a |-> 1, b |-> 1, unit |-> 2])

\* b = 1/25 on a token grid of 1/25 token and a currency grid of 1/3200: the
\* price is negative below s = 24/25, and the supply is 26/25 token
FineLogarithmicBondingCurve ==
    [BondingCurve([kind |-> "Logarithmic", a |-> 1, b |-> 1, unit |-> 25])
        EXCEPT !.total_supply = 26, !.graduation_threshold = 10]

Curves == {LinearBondingCurve, ExponentialBondingCurve, FlatExponentialBondingCurve, PolynomialBondingCurve, FallingPolynomialBondingCurve, LogarithmicBondingCurve, LowLogarithmicBondingCurve}

(***************************************************************************)
(* calculate_cost of each variant.                                         *)
(***************************************************************************)
\* mutant of Linear_calculate_cost: the square of the difference instead of
\* the difference of the squares
Linear_cost_of_difference(c, from_supply, to_supply) ==
    LET cost == RoundDiv(c.k * (to_supply - from_supply) * (to_supply - from_supply), 2 * c.multiplier)
    IN  Max(0, cost)

Linear_calculate_cost(c, from_supply, to_supply) ==
    LET cost == RoundDiv(c.k * (to_supply * to_supply - from_supply * from_supply), 2 * c.multiplier)
    IN  Max(0, cost)

Exponential_calculate_cost(c, from_supply, to_supply) ==
    IF c.b = 0
    THEN c.a * (to_supply - from_supply)
    ELSE RoundDiv(c.a * (Exp(c.b * to_supply) - Exp(c.b * from_supply)), c.b)

\* the loop of PolynomialBondingCurve.calculate_cost from term j on; term j
\* (1-based) is coefficient i = j - 1 of the source
RECURSIVE PolynomialTerms(_, _, _, _)
PolynomialTerms(coefficients, j, from_supply, to_supply) ==
    IF j > Len(coefficients)
    THEN 0
    ELSE RoundDiv(coefficients[j] * (to_supply ^ j - from_supply ^ j), j)
         + PolynomialTerms(coefficients, j + 1, from_supply, to_supply)

Polynomial_calculate_cost(c, from_supply, to_supply) ==
    LET cost == PolynomialTerms(c.coefficients, 1, from_supply, to_supply)
    IN  Max(0, cost)

\* np.log(s + b) of the Logarithmic curve, n = s + b in grid units
np_log(c, n) ==
    CASE c.unit = 1 -> LnTable[n]
      [] c.unit = 2 -> LnHalfTable[n]
      [] c.unit = 25 -> LnFineTable[n]

\* the units of the table of np_log: 1/16, or 1/65536 on the fine grid
ln_scale(c) == IF c.unit = 25 THEN 65536 ELSE 16

\* the table units in one unit of the currency grid
ln_round(c) == IF c.unit = 25 THEN 512 ELSE 1

\* the inner function integral(s) of LogarithmicBondingCurve.calculate_cost
integral(c, s) == c.a * RoundDiv((s + c.b) * np_log(c, s + c.b) - ln_scale(c) * (s + c.b), ln_round(c))

Logarithmic_calculate_cost(c, from_supply, to_supply) ==
    integral(c, to_supply) - integral(c, from_supply)

calculate_cost(c, from_supply, to_supply) ==
    CASE c.kind = "Linear" -> Linear_calculate_cost(c, from_supply, to_supply)
      [] c.kind = "Exponential" -> Exponential_calculate_cost(c, from_supply, to_supply)
      [] c.kind = "Polynomial" -> Polynomial_calculate_cost(c, from_supply, to_supply)
      [] c.kind = "Logarithmic" -> Logarithmic_calculate_cost(c, from_supply, to_supply)

(***************************************************************************)
(* get_price of each variant, in units of 1/PriceScale.                    *)
(***************************************************************************)
\* the starting price 0.0001 that LinearBondingCurve.get_price returns at
\* supply 0: with k = 2 and multiplier = 10^7 it is the price at a supply of
\* 500 tokens; here the price at a supply of 5/4 grid units
starting_price == (5 * PriceScale) \div 2

\* the minimum price 0.0001 of PolynomialBondingCurve.get_price
minimum_price == (5 * PriceScale) \div 2

Linear_get_price(c, supply) ==
    IF supply = 0
    THEN starting_price
    ELSE FDiv(c.k * supply, c.multiplier)

\* a * np.exp(b * supply): with b = 0 the factor is 1 and a is in grid units
\* per token unit; otherwise a is counted in units of ln 2 = 0.693
Exponential_get_price(c, supply) ==
    IF c.b = 0
    THEN PriceScale * c.a
    ELSE RoundDiv(693 * PriceScale * c.a * Exp(c.b * supply), 1000)

\* supply ** i: in Python 0 ** 0 is 1
Pow(x, n) == IF n = 0 THEN 1 ELSE x ^ n

\* the loop of PolynomialBondingCurve.get_price from term j on (coefficient
\* i = j - 1 of the source)
RECURSIVE PolynomialPrice(_, _, _)
PolynomialPrice(coefficients, j, supply) ==
    IF j > Len(coefficients)
    THEN 0
    ELSE PriceScale * coefficients[j] * Pow(supply, j - 1) + PolynomialPrice(coefficients, j + 1, supply)

Polynomial_get_price(c, supply) ==
    LET price == PolynomialPrice(c.coefficients, 1, supply)
    IN  Max(minimum_price, price)

\* a * np.log(supply + b), in currency grid units per token grid unit
Logarithmic_get_price(c, supply) == RoundDiv(PriceScale * c.a * np_log(c, supply + c.b), ln_round(c))

get_price(c, supply) ==
    CASE c.kind = "Linear" -> Linear_get_price(c, supply)
      [] c.kind = "Exponential" -> Exponential_get_price(c, supply)
      [] c.kind = "Polynomial" -> Polynomial_get_price(c, supply)
      [] c.kind = "Logarithmic" -> Logarithmic_get_price(c, supply)

(***************************************************************************)
(* _calculate_tokens_out of each variant, for a curve at supply s          *)
(* (self.tokens_sold).                                                     *)
(***************************************************************************)
\* the radicand of LinearBondingCurve._calculate_tokens_out
radicand(c, s, virtual_amount) == RoundDiv(2 * virtual_amount * c.multiplier, c.k) + s * s

\* mutant of Linear_calculate_tokens_out: returns the new supply, not the
\* difference to the current one
Linear_new_supply(c, s, virtual_amount) == Sqrt(radicand(c, s, virtual_amount))

Linear_calculate_tokens_out(c, s, virtual_amount) ==
    LET new_s == Sqrt(radicand(c, s, virtual_amount))
    IN  new_s - s

\* the argument of np.log in ExponentialBondingCurve._calculate_tokens_out
log_argument(c, s, virtual_amount) == RoundDiv(virtual_amount * c.b, c.a) + Exp(c.b * s)

Exponential_calculate_tokens_out(c, s, virtual_amount) ==
    IF c.b = 0
    THEN RoundDiv(virtual_amount, c.a)
    ELSE RoundDiv(Log(log_argument(c, s, virtual_amount)), c.b) - s

\* the bisection tolerance, 0.001 token: one token grid unit
epsilon == 1

\* the binary search of the Polynomial and Logarithmic _calculate_tokens_out:
\* the while loop from the bounds low, high on
RECURSIVE Bisect(_, _, _, _, _)
Bisect(c, s, virtual_amount, low, high) ==
    IF high - low > epsilon
    THEN LET mid == (low + high) \div 2
             cost == calculate_cost(c, s, s + mid)
         IN  IF cost < virtual_amount
             THEN Bisect(c, s, virtual_amount, mid, high)
             ELSE Bisect(c, s, virtual_amount, low, mid)
    ELSE low

Polynomial_calculate_tokens_out(c, s, virtual_amount) ==
    Bisect(c, s, virtual_amount, 0, c.total_supply - s)

Logarithmic_calculate_tokens_out(c, s, virtual_amount) ==
    Bisect(c, s, virtual_amount, 0, c.total_supply - s)

calculate_tokens_out(c, s, virtual_amount) ==
    CASE c.kind = "Linear" -> Linear_calculate_tokens_out(c, s, virtual_amount)
      [] c.kind = "Exponential" -> Exponential_calculate_tokens_out(c, s, virtual_amount)
      [] c.kind = "Polynomial" -> Polynomial_calculate_tokens_out(c, s, virtual_amount)
      [] c.kind = "Logarithmic" -> Logarithmic_calculate_tokens_out(c, s, virtual_amount)

\* math.sqrt raises ValueError ("math domain error") on a negative radicand
RaisesDomainError(c, s, virtual_amount) == c.kind = "Linear" /\ radicand(c, s, virtual_amount) < 0

\* np.log of a non-positive argument is nan or -inf, no grid value
LogIsFinite(c, s, virtual_amount) == (c.kind = "Exponential" /\ c.b # 0) => log_argument(c, s, virtual_amount) > 0

(***************************************************************************)
(* State of one BondingCurve instance, and what the last call returned.    *)
(***************************************************************************)
VARIABLES
    curve,          \* the constructor arguments of the instance
    tokens_sold,    \* self.tokens_sold
    virtual_raised, \* self.virtual_raised
    graduated,      \* self.graduated
    last,           \* the last call: its argument, outcome and pre-state
    calls,          \* number of calls made on the instance
    probe,          \* the last evaluation of a pure method (PureSpec)
    base_curve,     \* SimulationEngine.base_curve: its three mutable fields
    tax_rate,       \* SimulationEngine.tax_rate, in percent
    num_trades,     \* the num_trades passed to every run of the batch
    pc,             \* where the engine is: "batch", "loop" or "done"
    i,              \* run_simulation: the loop index
    trades,         \* run_simulation: trades
    total_volume,   \* run_simulation: total_volume
    tax_collected,  \* run_simulation: tax_collected
    draws,          \* the random draws the running simulation has consumed
    step,           \* the last loop iteration: what it did, and the state before it
    results,        \* run_batch_simulations: results
    draw_log,       \* the draws consumed by each run of results
    metrics         \* what calculate_metrics returned

\* the curve instance traded on, and the record of calls and evaluations
curve_vars == <<curve, tokens_sold, virtual_raised, graduated, last, calls, probe>>

\* the engine, its running simulation and its results
engine_vars == <<base_curve, tax_rate, num_trades, pc, i, trades, total_volume, tax_collected, draws, step, results, draw_log, metrics>>

vars == <<curve_vars, engine_vars>>

\* currency amounts passed to buy: negative, zero, small, the threshold,
\* and one that exceeds the cost of the whole supply of every curve
BuyAmounts == {0 - 2 ^ (FracBits - 1), -1, 0, 1, 3, 7, GraduationThreshold, 2 ^ (TotalSupply + FracBits + 1)}

\* token amounts passed to sell, beside the amount the last buy returned
SellAmounts == {-1, 0, 1, 2, TotalSupply + 1}

NoCall == [op |-> "new", status |-> "ok", arg |-> 0, out |-> 0, price |-> 0, tokens_sold |-> 0, virtual_raised |-> 0, graduated |-> FALSE, after_buy |-> FALSE, buy_arg |-> 0, buy_sold |-> 0]

NoProbe == [op |-> "none"]

NoStep == [called |-> "new", outcome |-> "none"]

NoMetrics == [status |-> "none"]

\* no engine has been constructed on the curve
NoEngine ==
    /\ base_curve = [tokens_sold |-> 0, virtual_raised |-> 0, graduated |-> FALSE]
    /\ tax_rate = 0
    /\ num_trades = 0
    /\ pc = "done"
    /\ i = 0
    /\ trades = <<>>
    /\ total_volume = 0
    /\ tax_collected = 0
    /\ draws = <<>>
    /\ step = NoStep
    /\ results = <<>>
    /\ draw_log = <<>>
    /\ metrics = NoMetrics

\* BondingCurve.__init__
Init ==
    /\ curve \in Curves
    /\ tokens_sold = 0
    /\ virtual_raised = 0
    /\ graduated = FALSE
    /\ last = NoCall
    /\ calls = 0
    /\ probe = NoProbe
    /\ NoEngine

\* mutant of trading_closed: the guard is missing
never_closed(g) == FALSE

\* the guard of buy and of sell: if self.graduated: raise ValueError
trading_closed(g) == g

\* buy: the clamp condition
exceeds_supply(c, s, tokens_out) == s + tokens_out > c.total_supply

\* buy: tokens_out after the clamp
buy_tokens_out(c, s, virtual_amount) ==
    LET tokens_out == calculate_tokens_out(c, s, virtual_amount)
    IN  IF exceeds_supply(c, s, tokens_out) THEN c.total_supply - s ELSE tokens_out

\* mutant of buy_virtual_amount: the clamp leaves the requested amount
buy_virtual_amount_requested(c, s, virtual_amount) == virtual_amount

\* mutant of buy_virtual_amount: charges the curve cost of the tokens issued
buy_virtual_amount_at_cost(c, s, virtual_amount) == calculate_cost(c, s, s + buy_tokens_out(c, s, virtual_amount))

\* buy: virtual_amount after the clamp
buy_virtual_amount(c, s, virtual_amount) ==
    LET tokens_out == calculate_tokens_out(c, s, virtual_amount)
    IN  IF exceeds_supply(c, s, tokens_out) THEN calculate_cost(c, s, c.total_supply) ELSE virtual_amount

\* buy, sell: actual_price = amount / quantity if quantity > 0 else 0
actual_price(amount, quantity) == IF quantity > 0 THEN FDiv(amount, quantity) ELSE 0

\* mutant of reaches_graduation: strictly above the threshold
reaches_graduation_strict(c, raised) == raised > c.graduation_threshold

\* buy: the graduation check
reaches_graduation(c, raised) == raised >= c.graduation_threshold

\* mutant of sell_rejects: a zero amount passes
sell_rejects_negative(s, token_amount) == token_amount < 0 \/ token_amount > s

\* sell: the two amount checks
sell_rejects(s, token_amount) == token_amount <= 0 \/ token_amount > s

\* mutant of sell_virtual_out: the cost of the range above the current supply
sell_virtual_out_above(c, s, token_amount) == calculate_cost(c, s, s + token_amount)

\* sell: virtual_out
sell_virtual_out(c, s, token_amount) ==
    LET new_tokens_sold == s - token_amount
    IN  calculate_cost(c, new_tokens_sold, s)

\* the call follows a successful, non-graduating buy of a positive amount
\* and sells exactly the tokens that buy returned
SellsLastBuy(token_amount) ==
    /\ last.op = "buy"
    /\ last.status = "ok"
    /\ last.arg > 0
    /\ last.out > 0
    /\ ~graduated
    /\ token_amount = last.out

\* what is recorded of a call in any case: its argument and the instance
\* before it; for a sell, whether it sells the tokens of the buy before it
Called(op, arg, follows_buy) ==
    [NoCall EXCEPT !.op = op, !.arg = arg, !.tokens_sold = tokens_sold, !.virtual_raised = virtual_raised, !.graduated = graduated,
                   !.after_buy = follows_buy, !.buy_arg = IF follows_buy THEN last.arg ELSE 0, !.buy_sold = IF follows_buy THEN last.tokens_sold ELSE 0]

\* a call that raises: nothing of the instance changes
Raise(op, arg, follows_buy, status) ==
    /\ last' = [Called(op, arg, follows_buy) EXCEPT !.status = status]
    /\ UNCHANGED <<tokens_sold, virtual_raised, graduated>>

\* BondingCurve.buy(virtual_amount)
buy(virtual_amount) ==
    /\ calls < MaxCalls
    /\ LogIsFinite(curve, tokens_sold, virtual_amount)
    /\ calls' = calls + 1
    /\ UNCHANGED <<curve, probe, engine_vars>>
    /\ IF trading_closed(graduated)
       THEN Raise("buy", virtual_amount, FALSE, "graduated")
       ELSE IF RaisesDomainError(curve, tokens_sold, virtual_amount)
       THEN Raise("buy", virtual_amount, FALSE, "math domain error")
       ELSE LET tokens_out == buy_tokens_out(curve, tokens_sold, virtual_amount)
                spent == buy_virtual_amount(curve, tokens_sold, virtual_amount)
                price == actual_price(spent, tokens_out)
            IN  /\ tokens_sold' = tokens_sold + tokens_out
                /\ virtual_raised' = virtual_raised + spent
                /\ graduated' = IF reaches_graduation(curve, virtual_raised + spent) THEN TRUE ELSE graduated
                /\ last' = [Called("buy", virtual_amount, FALSE) EXCEPT !.out = tokens_out, !.price = price]

\* BondingCurve.sell(token_amount)
sell(token_amount) ==
    /\ calls < MaxCalls
    /\ calls' = calls + 1
    /\ UNCHANGED <<curve, probe, engine_vars>>
    /\ IF trading_closed(graduated)
       THEN Raise("sell", token_amount, SellsLastBuy(token_amount), "graduated")
       ELSE IF sell_rejects(tokens_sold, token_amount)
       THEN Raise("sell", token_amount, SellsLastBuy(token_amount), "invalid amount")
       ELSE LET virtual_out == sell_virtual_out(curve, tokens_sold, token_amount)
                price == actual_price(virtual_out, token_amount)
            IN  /\ tokens_sold' = tokens_sold - token_amount
                /\ virtual_raised' = virtual_raised - virtual_out
                /\ UNCHANGED graduated
                /\ last' = [Called("sell", token_amount, SellsLastBuy(token_amount)) EXCEPT !.out = virtual_out, !.price = price]

Next ==
    \/ \E virtual_amount \in BuyAmounts : buy(virtual_amount)
    \/ \E token_amount \in SellAmounts \cup {last.out} : sell(token_amount)

Spec == Init /\ [][Next]_vars

(***************************************************************************)
(* Properties of the trading protocol, checked under Spec.                 *)
(***************************************************************************)
Closed(c) == c.kind \in {"Linear", "Exponential"}

Bisected(c) == c.kind \in {"Polynomial", "Logarithmic"}

\* the last call was a buy that returned
BuyReturned == last.op = "buy" /\ last.status = "ok"

\* the last call was a sell that returned
SellReturned == last.op = "sell" /\ last.status = "ok"

\* the last call was a buy whose computed tokens_out exceeded the remaining supply
BuyWasClamped ==
    /\ BuyReturned
    /\ exceeds_supply(curve, last.tokens_sold, calculate_tokens_out(curve, last.tokens_sold, last.arg))

\* the last call was a buy that returned without the clamp
BuyWasNotClamped ==
    /\ BuyReturned
    /\ ~exceeds_supply(curve, last.tokens_sold, calculate_tokens_out(curve, last.tokens_sold, last.arg))

\* the instance is as it was before the last call
InstanceUnchanged ==
    /\ tokens_sold = last.tokens_sold
    /\ virtual_raised = last.virtual_raised
    /\ graduated = last.graduated

\* C1: in every state reached by buy and sell calls, 0 <= tokensSold <=
\* totalSupply.
SupplyBound == 0 <= tokens_sold /\ tokens_sold <= curve.total_supply

\* C2: graduated never returns to false, and on a graduated curve every buy
\* and every sell fails with the graduated error and changes neither
\* tokensSold nor currencyRaised nor graduated.
GraduationIsFinal ==
    [][graduated => /\ graduated'
                    /\ tokens_sold' = tokens_sold
                    /\ virtual_raised' = virtual_raised
                    /\ last'.status = "graduated"]_vars

\* C2 witness: a sell made on a graduated curve was rejected.
SellAfterGraduation ==
    /\ last.op = "sell"
    /\ last.graduated
    /\ last.status = "graduated"
    /\ last.arg > 0
    /\ last.arg <= tokens_sold

\* C3: graduated is true exactly when currencyRaised >= graduationThreshold.
GraduatedIffThresholdReached == graduated <=> (virtual_raised >= curve.graduation_threshold)

\* C3 witness: a buy took currencyRaised from below the threshold to exactly
\* the threshold and graduated the curve.
BuyReachedThreshold ==
    /\ BuyReturned
    /\ ~last.graduated
    /\ last.virtual_raised > 0
    /\ virtual_raised = curve.graduation_threshold
    /\ graduated

\* C4: on a non-graduated curve a sell of tokenAmount <= 0 or of more than
\* tokensSold fails with the invalid-amount error and changes nothing.
SellRejectsInvalidAmount ==
    (last.op = "sell" /\ ~last.graduated /\ (last.arg <= 0 \/ last.arg > last.tokens_sold))
        => (last.status = "invalid amount" /\ InstanceUnchanged)

\* C4 witness: a sell of more tokens than were sold was rejected on a curve
\* that had tokens to sell.
OversizedSellRejected ==
    /\ last.op = "sell"
    /\ ~last.graduated
    /\ last.tokens_sold > 0
    /\ last.arg > last.tokens_sold
    /\ last.status = "invalid amount"

\* C5: a buy whose computed tokensOut would exceed totalSupply issues exactly
\* the remaining supply and adds calculateCost(tokensSold, totalSupply), not
\* the requested amount, to currencyRaised.
ClampedBuyFillsSupply ==
    BuyWasClamped =>
        /\ last.out = curve.total_supply - last.tokens_sold
        /\ tokens_sold = curve.total_supply
        /\ virtual_raised = last.virtual_raised + calculate_cost(curve, last.tokens_sold, curve.total_supply)

\* C5 witness: a clamped buy on a curve that had already sold tokens spent
\* less than the requested amount.
ClampedBuySpentLess ==
    /\ BuyWasClamped
    /\ last.tokens_sold > 0
    /\ virtual_raised - last.virtual_raised < last.arg
    /\ virtual_raised - last.virtual_raised > 0

\* the state changes C6 states for a buy that is not clamped
UnclampedBuyUpdates ==
    /\ tokens_sold = last.tokens_sold + last.out
    /\ virtual_raised = last.virtual_raised + last.arg
    /\ graduated = (virtual_raised >= curve.graduation_threshold)

SellPaysCostOfRange ==
    /\ last.op = "sell" => graduated = last.graduated
    /\ SellReturned =>
        /\ last.out = calculate_cost(curve, last.tokens_sold - last.arg, last.tokens_sold)
        /\ tokens_sold = last.tokens_sold - last.arg
        /\ virtual_raised = last.virtual_raised - last.out
        /\ last.price = FDiv(last.out, last.arg)

\* C7 witness: a sell of part of the supply returned currency.
PartialSellReturned ==
    /\ SellReturned
    /\ last.arg < last.tokens_sold
    /\ last.out > 0
    /\ tokens_sold > 0

\* the last call sold the tokens of the buy before it (see SellsLastBuy)
RoundTrip == last.op = "sell" /\ last.after_buy

\* C8: after a successful, non-graduating buy(x), x > 0, that returned
\* tokensOut > 0, an immediately following sell(tokensOut) succeeds, puts
\* tokensSold back at its pre-buy value and returns at most x, equal to x
\* within tolerance: at most x on the Polynomial and Logarithmic curves, and
\* on the Linear and Exponential curves an amount that exceeds x by less than
\* the cost of one grid unit of tokens (the rounding of the inversion).
RoundTripReturnsSpent ==
    RoundTrip =>
        /\ last.status = "ok"
        /\ tokens_sold = last.buy_sold
        /\ Bisected(curve) => last.out <= last.buy_arg
        /\ Closed(curve) => calculate_cost(curve, last.buy_sold, last.buy_sold + last.arg - 1) < last.buy_arg

(***************************************************************************)
(* The pure methods on their own: calculate_cost on supplies a <= b <= c,  *)
(* and _calculate_tokens_out on a curve at supply s.  One evaluation is    *)
(* followed per behaviour: the methods keep no state.                      *)
(***************************************************************************)
Supplies == 0..TotalSupply

\* currency amounts up to the cost of the whole supply of every curve
ProbeAmounts == 0..(2 ^ (TotalSupply + FracBits))

\* calculate_cost(a, a), (a, b), (b, c) and (a, c)
EvalCost(a, b, c) ==
    /\ probe = NoProbe
    /\ a <= b
    /\ b <= c
    /\ probe' = [op |-> "calculate_cost", a |-> a, b |-> b, c |-> c,
                 aa |-> calculate_cost(curve, a, a),
                 ab |-> calculate_cost(curve, a, b),
                 bc |-> calculate_cost(curve, b, c),
                 ac |-> calculate_cost(curve, a, c)]
    /\ UNCHANGED <<curve, tokens_sold, virtual_raised, graduated, last, calls, engine_vars>>

\* _calculate_tokens_out(virtual_amount) with self.tokens_sold = s
EvalTokensOut(s, virtual_amount) ==
    /\ probe = NoProbe
    /\ LogIsFinite(curve, s, virtual_amount)
    /\ ~RaisesDomainError(curve, s, virtual_amount)
    /\ probe' = [op |-> "calculate_tokens_out", s |-> s, virtual_amount |-> virtual_amount,
                 tokens_out |-> calculate_tokens_out(curve, s, virtual_amount)]
    /\ UNCHANGED <<curve, tokens_sold, virtual_raised, graduated, last, calls, engine_vars>>

\* get_price(supply)
EvalPrice(supply) ==
    /\ probe = NoProbe
    /\ probe' = [op |-> "get_price", supply |-> supply, price |-> get_price(curve, supply)]
    /\ UNCHANGED <<curve, tokens_sold, virtual_raised, graduated, last, calls, engine_vars>>

PureNext ==
    \/ \E a \in Supplies, b \in Supplies, c \in Supplies : EvalCost(a, b, c)
    \/ \E s \in Supplies, virtual_amount \in ProbeAmounts : EvalTokensOut(s, virtual_amount)
    \/ \E supply \in Supplies : EvalPrice(supply)

PureSpec == Init /\ [][PureNext]_vars

\* the last evaluation inverted an amount x with 0 < x <= calculateCost(s, totalSupply)
InversionInRange ==
    /\ probe.op = "calculate_tokens_out"
    /\ 0 < probe.virtual_amount
    /\ probe.virtual_amount <= calculate_cost(curve, probe.s, curve.total_supply)

\* calculateCost(s, s + delta) for the supply and result of the last inversion
CostOfResult(delta) == calculate_cost(curve, probe.s, probe.s + probe.tokens_out + delta)

\* the bisection half of C9: the result costs at most x, and one tolerance
\* more costs at least x
BisectionBrackets ==
    Bisected(curve) => (CostOfResult(0) <= probe.virtual_amount /\ probe.virtual_amount <= CostOfResult(epsilon))

\* C9 as stated: for 0 < x <= calculateCost(s, totalSupply) the inversion d
\* has calculateCost(s, s + d) = x exactly on the Linear and Exponential
\* curves; on the Polynomial and Logarithmic curves calculateCost(s, s + d)
\* <= x and d is within the tolerance of the exact solution.
InversionIsExact ==
    InversionInRange =>
        /\ Closed(curve) => CostOfResult(0) = probe.virtual_amount
        /\ BisectionBrackets

\* C9 amended: on the Linear and Exponential curves calculateCost(s, s + d)
\* equals x only up to the rounding of d: x lies strictly between the cost
\* of one grid unit less and of one grid unit more than d.
InversionIsRounded ==
    InversionInRange =>
        /\ Closed(curve) => (CostOfResult(-1) < probe.virtual_amount /\ probe.virtual_amount < CostOfResult(1))
        /\ BisectionBrackets

\* C9 witness: a closed-form inversion on a curve that has sold tokens whose
\* result does not cost exactly x.
ClosedInversionRounded ==
    /\ InversionInRange
    /\ Closed(curve)
    /\ probe.s > 0
    /\ probe.tokens_out > 0
    /\ CostOfResult(0) # probe.virtual_amount

\* the last evaluation was of calculate_cost
CostEvaluated == probe.op = "calculate_cost"

\* the integral of the polynomial over neither part is negative (nothing is
\* clamped)
NoPartClamped ==
    curve.kind = "Polynomial" =>
        /\ PolynomialTerms(curve.coefficients, 1, probe.a, probe.b) >= 0
        /\ PolynomialTerms(curve.coefficients, 1, probe.b, probe.c) >= 0

\* C10 as stated: for every variant and a <= b <= c, calculateCost(s, s) = 0
\* and calculateCost(a, b) + calculateCost(b, c) = calculateCost(a, c), for
\* Polynomial with any coefficient list.
CostIsAdditive ==
    CostEvaluated => (probe.aa = 0 /\ probe.ab + probe.bc = probe.ac)

\* C10 amended: calculateCost(s, s) = 0 for every variant; the costs add up
\* for Linear, Exponential and Logarithmic, and for Polynomial when the
\* polynomial's integral over neither part is negative.
CostIsAdditiveUnlessClamped ==
    CostEvaluated => (probe.aa = 0 /\ (NoPartClamped => probe.ab + probe.bc = probe.ac))

\* C10 witness: three distinct supplies with a positive cost on both parts.
CostOfTwoParts ==
    /\ CostEvaluated
    /\ probe.a > 0
    /\ probe.a < probe.b
    /\ probe.b < probe.c
    /\ probe.ab > 0
    /\ probe.bc > 0

\* C11: for every variant and all supplies 0 <= from <= to,
\* calculateCost(from, to) >= 0.
CostIsNonNegative ==
    CostEvaluated => (probe.aa >= 0 /\ probe.ab >= 0 /\ probe.bc >= 0 /\ probe.ac >= 0)

\* the last evaluation was of get_price
PriceEvaluated == probe.op = "get_price"

\* C12: for every variant and every supply s >= 0, getPrice(s) is at least
\* the starting price that the Linear curve returns at s = 0.
PriceAtLeastFloor == PriceEvaluated => probe.price >= starting_price

(***************************************************************************)
(* The simulation engine: SimulationEngine(base_curve, tax_rate) and one   *)
(* call of run_batch_simulations(NumSimulations, num_trades, ...).  Every  *)
(* run of the batch trades on its own copy of the curve, held in           *)
(* tokens_sold, virtual_raised and graduated.  A uniform draw of           *)
(* random.random() is a number of percent; a normal draw                   *)
(* np.random.normal(loc, scale) is loc + scale * z for a standard deviate  *)
(* z.  The tax rate is a number of percent.                                *)
(***************************************************************************)
\* the keyword arguments of run_simulation beside num_trades
trade_params == [avg_trade_size |-> 4, trade_size_std |-> 2, sell_probability |-> 50, whale_probability |-> 50, whale_multiplier |-> 4]

\* the tax rates an engine is constructed with: none, a half, and twice the
\* trade (the constructor accepts any number)
TaxRates == {0, 50, 200}

\* values of random.random(), in percent
UniformDraws == {25, 75}

\* standard deviates behind np.random.normal
NormalDraws == {-2, 1}

\* the minimum trade size, 0.1 currency: one currency grid unit
min_trade_size == 1

\* the three mutable fields of a curve
Fields(r) == [tokens_sold |-> r.tokens_sold, virtual_raised |-> r.virtual_raised, graduated |-> r.graduated]

\* the curve copy of the running simulation
Copy == [tokens_sold |-> tokens_sold, virtual_raised |-> virtual_raised, graduated |-> graduated]

\* a curve on which nothing was traded
FreshCurve == [tokens_sold |-> 0, virtual_raised |-> 0, graduated |-> FALSE]

\* curve.buy(virtual_amount) on a curve with the fields st: what it
\* returns or raises, and the fields after it
curve_buy(c, st, virtual_amount) ==
    IF trading_closed(st.graduated)
    THEN [status |-> "graduated", out |-> 0, price |-> 0] @@ st
    ELSE IF RaisesDomainError(c, st.tokens_sold, virtual_amount)
    THEN [status |-> "math domain error", out |-> 0, price |-> 0] @@ st
    ELSE LET tokens_out == buy_tokens_out(c, st.tokens_sold, virtual_amount)
             spent == buy_virtual_amount(c, st.tokens_sold, virtual_amount)
         IN  [status |-> "ok", out |-> tokens_out, price |-> actual_price(spent, tokens_out),
              tokens_sold |-> st.tokens_sold + tokens_out,
              virtual_raised |-> st.virtual_raised + spent,
              graduated |-> IF reaches_graduation(c, st.virtual_raised + spent) THEN TRUE ELSE st.graduated]

\* curve.sell(token_amount) on a curve with the fields st
curve_sell(c, st, token_amount) ==
    IF trading_closed(st.graduated)
    THEN [status |-> "graduated", out |-> 0, price |-> 0] @@ st
    ELSE IF sell_rejects(st.tokens_sold, token_amount)
    THEN [status |-> "invalid amount", out |-> 0, price |-> 0] @@ st
    ELSE LET virtual_out == sell_virtual_out(c, st.tokens_sold, token_amount)
         IN  [status |-> "ok", out |-> virtual_out, price |-> actual_price(virtual_out, token_amount),
              tokens_sold |-> st.tokens_sold - token_amount,
              virtual_raised |-> st.virtual_raised - virtual_out,
              graduated |-> st.graduated]

\* the curve an engine is constructed on: fresh, or one that was bought on
BaseCurves(c) == {FreshCurve, Fields(curve_buy(c, FreshCurve, GraduationThreshold))}

\* SimulationEngine.__init__, and the arguments of run_batch_simulations
SimInit ==
    /\ curve \in Curves \cup {FineLogarithmicBondingCurve}
    /\ tokens_sold = 0
    /\ virtual_raised = 0
    /\ graduated = FALSE
    /\ last = NoCall
    /\ calls = 0
    /\ probe = NoProbe
    /\ base_curve \in BaseCurves(curve)
    /\ tax_rate \in TaxRates
    /\ num_trades \in 0..NumTrades
    /\ pc = "batch"
    /\ i = 0
    /\ trades = <<>>
    /\ total_volume = 0
    /\ tax_collected = 0
    /\ draws = <<>>
    /\ step = NoStep
    /\ results = <<>>
    /\ draw_log = <<>>
    /\ metrics = NoMetrics

\* mutant of deepcopy_reset: the copy keeps the fields of the base curve
deepcopy_only(base, previous) == base

\* mutant of deepcopy_reset: the run goes on with the curve of the run before
previous_copy(base, previous) == previous

\* run_simulation: curve = deepcopy(self.base_curve) and the three resets;
\* previous is the copy the run before traded on
deepcopy_reset(base, previous) == [base EXCEPT !.tokens_sold = 0, !.virtual_raised = 0, !.graduated = FALSE]

\* mutant of in_range: one iteration more
in_range_inclusive(index, n) == index <= n

\* for i in range(num_trades)
in_range(index, n) == index < n

\* mutant of loop_breaks: the break is missing
never_breaks(g) == FALSE

\* if curve.graduated: break
loop_breaks(g) == g

\* mutant of is_sell: a sell whatever the supply
is_sell_unguarded(direction, s) == direction < trade_params.sell_probability

\* is_sell = random.random() < sell_probability and curve.tokens_sold > 0
is_sell(direction, s) == direction < trade_params.sell_probability /\ s > 0

\* is_whale = random.random() < whale_probability
is_whale(whale) == whale < trade_params.whale_probability

\* np.random.normal(loc, scale)
normal(loc, scale, z) == loc + scale * z

\* trade_size of one iteration
draw_trade_size(whale, z) ==
    LET raw == IF is_whale(whale)
               THEN Abs(normal(trade_params.avg_trade_size * trade_params.whale_multiplier,
                               trade_params.trade_size_std * trade_params.whale_multiplier, z))
               ELSE Abs(normal(trade_params.avg_trade_size, trade_params.trade_size_std, z))
    IN  Max(min_trade_size, raw)

\* amount * self.tax_rate
tax_of(amount) == RoundDiv(amount * tax_rate, 100)

\* the slippage of a buy
buy_slippage(expected_price, price) ==
    IF expected_price > 0 THEN FDiv(price - expected_price, expected_price) ELSE 0

\* the slippage of a sell
sell_slippage(expected_price, price) ==
    IF expected_price > 0 THEN FDiv(expected_price - price, expected_price) ELSE 0

\* mutant of buy_volume: the volume is added before the try, as the tax is
buy_volume_before_try(status, trade_size) == trade_size

\* buy branch: total_volume += trade_size, inside the try after curve.buy
buy_volume(status, trade_size) == IF status = "ok" THEN trade_size ELSE 0

\* mutant of net_trade_size: the tax is not deducted from the spend
net_trade_size_untaxed(trade_size) == trade_size

\* buy branch: net_trade_size
net_trade_size(trade_size) == trade_size - tax_of(trade_size)

\* the buy branch of one iteration on the curve copy st: what it calls, the
\* copy after it, the trade it appends, and what it adds to total_volume and
\* to tax_collected
buy_branch(st, trade_size, timestamp) ==
    LET tax_amount == tax_of(trade_size)
        expected_price == get_price(curve, st.tokens_sold)
        r == curve_buy(curve, st, net_trade_size(trade_size))
        trade == [trade_type |-> "buy", virtual_amount |-> trade_size, token_amount |-> r.out,
                  price |-> r.price, slippage |-> buy_slippage(expected_price, r.price),
                  total_supply |-> r.tokens_sold, virtual_raised |-> r.virtual_raised, timestamp |-> timestamp]
    IN  [called |-> "buy", arg |-> net_trade_size(trade_size), expected_price |-> expected_price,
         out |-> r.out, price |-> r.price, status |-> r.status, outcome |-> IF r.status = "ok" THEN "recorded" ELSE "raised",
         copy |-> Fields(r), trade |-> IF r.status = "ok" THEN <<trade>> ELSE <<>>,
         volume |-> buy_volume(r.status, trade_size), tax |-> tax_amount]

\* mutant of sell_volume: the volume counts the proceeds after tax
sell_volume_net(status, virtual_out, tax_amount) == IF status = "ok" THEN virtual_out - tax_amount ELSE 0

\* sell branch: total_volume += virtual_out, inside the try after curve.sell
sell_volume(status, virtual_out, tax_amount) == IF status = "ok" THEN virtual_out ELSE 0

\* mutant of sell_token_amount: the cap at a tenth of the supply is missing
sell_token_amount_uncapped(trade_size, current_price, s) == RoundDiv(PriceScale * trade_size, current_price)

\* sell branch: min(trade_size / current_price, curve.tokens_sold * 0.1)
sell_token_amount(trade_size, current_price, s) ==
    Min(RoundDiv(PriceScale * trade_size, current_price), RoundDiv(s, 10))

\* the sell branch of one iteration on the curve copy st
sell_branch(st, trade_size, timestamp) ==
    LET current_price == get_price(curve, st.tokens_sold)
        token_amount == sell_token_amount(trade_size, current_price, st.tokens_sold)
        expected_price == get_price(curve, st.tokens_sold)
        r == curve_sell(curve, st, token_amount)
        tax_amount == tax_of(r.out)
        trade == [trade_type |-> "sell", virtual_amount |-> r.out - tax_amount, token_amount |-> token_amount,
                  price |-> r.price, slippage |-> sell_slippage(expected_price, r.price),
                  total_supply |-> r.tokens_sold, virtual_raised |-> r.virtual_raised, timestamp |-> timestamp]
    IN  IF current_price > 0 /\ token_amount > 0
        THEN [called |-> "sell", arg |-> token_amount, expected_price |-> expected_price,
              out |-> r.out, price |-> r.price, status |-> r.status, outcome |-> IF r.status = "ok" THEN "recorded" ELSE "raised",
              copy |-> Fields(r), trade |-> IF r.status = "ok" THEN <<trade>> ELSE <<>>,
              volume |-> sell_volume(r.status, r.out, tax_amount),
              tax |-> IF r.status = "ok" THEN tax_amount ELSE 0]
        ELSE [called |-> "none", arg |-> 0, expected_price |-> current_price,
              out |-> 0, price |-> 0, status |-> "ok", outcome |-> "skipped",
              copy |-> st, trade |-> <<>>, volume |-> 0, tax |-> 0]

\* run_simulation up to the loop: the copy of the base curve and the
\* empty totals
run_simulation_begin ==
    /\ pc = "batch"
    /\ Len(results) < NumSimulations
    /\ pc' = "loop"
    /\ LET copy == deepcopy_reset(base_curve, Copy)
       IN  /\ tokens_sold' = copy.tokens_sold
           /\ virtual_raised' = copy.virtual_raised
           /\ graduated' = copy.graduated
    /\ i' = 0
    /\ trades' = <<>>
    /\ total_volume' = 0
    /\ tax_collected' = 0
    /\ draws' = <<>>
    /\ step' = NoStep
    /\ UNCHANGED <<curve, last, calls, probe, base_curve, tax_rate, num_trades, results, draw_log, metrics>>

\* one iteration of the loop of run_simulation, with its three draws.  A
\* buy whose np.log argument is not positive computes nan and is left out.
iteration(direction, whale, z) ==
    /\ pc = "loop"
    /\ in_range(i, num_trades)
    /\ ~loop_breaks(graduated)
    /\ \E sells \in {is_sell(direction, tokens_sold)}, trade_size \in {draw_trade_size(whale, z)} :
       \E branch \in {IF sells THEN sell_branch(Copy, trade_size, i) ELSE buy_branch(Copy, trade_size, i)} :
           /\ ~sells => LogIsFinite(curve, tokens_sold, net_trade_size(trade_size))
           /\ tokens_sold' = branch.copy.tokens_sold
           /\ virtual_raised' = branch.copy.virtual_raised
           /\ graduated' = branch.copy.graduated
           /\ trades' = trades \o branch.trade
           /\ total_volume' = total_volume + branch.volume
           /\ tax_collected' = tax_collected + branch.tax
           /\ step' = [i |-> i, direction |-> direction, is_sell |-> sells, trade_size |-> trade_size,
                       called |-> branch.called, arg |-> branch.arg, expected_price |-> branch.expected_price,
                       out |-> branch.out, price |-> branch.price,
                       status |-> branch.status, outcome |-> branch.outcome,
                       before |-> Copy, volume_before |-> total_volume, tax_before |-> tax_collected,
                       trades_before |-> Len(trades)]
    /\ i' = i + 1
    /\ draws' = Append(draws, <<direction, whale, z>>)
    /\ UNCHANGED <<curve, last, calls, probe, base_curve, tax_rate, num_trades, pc, results, draw_log, metrics>>

\* mutant of final_price: the price is taken at the supply the run started at
initial_price(c, s) == get_price(c, 0)

\* final_price = curve.get_price(curve.tokens_sold)
final_price(c, s) == get_price(c, s)

\* the SimulationResult that run_simulation builds after the loop
SimulationResult ==
    [trades |-> trades, graduated |-> graduated, final_price |-> final_price(curve, tokens_sold),
     final_tokens_sold |-> tokens_sold, final_virtual_raised |-> virtual_raised,
     total_volume |-> total_volume, tax_collected |-> tax_collected]

\* the loop of run_simulation ends, by the range or by the break, and
\* run_batch_simulations appends the result
run_simulation_return ==
    /\ pc = "loop"
    /\ ~(in_range(i, num_trades) /\ ~loop_breaks(graduated))
    /\ pc' = "batch"
    /\ results' = Append(results, SimulationResult)
    /\ draw_log' = Append(draw_log, draws)
    /\ UNCHANGED <<curve_vars, base_curve, tax_rate, num_trades, i, trades, total_volume, tax_collected, draws, step, metrics>>

\* run_batch_simulations returns results
run_batch_simulations_return ==
    /\ pc = "batch"
    /\ Len(results) >= NumSimulations
    /\ pc' = "done"
    /\ UNCHANGED <<curve_vars, base_curve, tax_rate, num_trades, i, trades, total_volume, tax_collected, draws, step, results, draw_log, metrics>>

(***************************************************************************)
(* calculate_metrics(result).  Slippages and the two efficiencies are in   *)
(* units of 1/PriceScale, liquidity_depth in percent.  It is evaluated on  *)
(* results of at most one trade: with fewer than two prices the volatility *)
(* is the constant 0 of the else branch, and no np.std of log returns is   *)
(* computed.                                                               *)
(***************************************************************************)
RECURSIVE SumOf(_)
SumOf(seq) == IF seq = <<>> THEN 0 ELSE Head(seq) + SumOf(Tail(seq))

\* max of a non-empty list
RECURSIVE MaxOf(_)
MaxOf(seq) == IF Len(seq) = 1 THEN Head(seq) ELSE Max(Head(seq), MaxOf(Tail(seq)))

\* np.mean of a non-empty list
Mean(seq) == RoundDiv(SumOf(seq), Len(seq))

\* abs(t.slippage) < 0.01
low_slippage(trade) == Abs(trade.slippage) * 100 < PriceScale

\* the deviation that calculate_metrics appends for a trade
deviation(trade, first_price) ==
    LET expected_impact == trade.slippage
        actual_impact == IF first_price > 0 THEN FDiv(trade.price - first_price, first_price) ELSE 0
    IN  Abs(actual_impact - expected_impact)

\* the list price_deviations
price_deviations(result) ==
    LET counted == SelectSeq(result.trades, LAMBDA trade : trade.virtual_amount > 0)
    IN  [k \in 1..Len(counted) |-> deviation(counted[k], result.trades[1].price)]

\* mutant of no_trades: the early return is missing
some_trades(result) == FALSE

\* if not result.trades
no_trades(result) == result.trades = <<>>

\* what calculate_metrics does not return
Raised(status) ==
    [status |-> status, volatility |-> 0, avg_slippage |-> 0, max_slippage |-> 0, liquidity_depth |-> 0,
     price_impact |-> 0, market_efficiency |-> 0, graduation_efficiency |-> 0]

calculate_metrics(result) ==
    IF no_trades(result)
    THEN [status |-> "ok", volatility |-> 0, avg_slippage |-> 0, max_slippage |-> 0, liquidity_depth |-> 0,
          price_impact |-> 0, market_efficiency |-> 0, graduation_efficiency |-> 0]
    ELSE IF result.trades = <<>>
    THEN Raised("max() arg is an empty sequence")
    ELSE IF ~result.graduated /\ result.trades[1].virtual_raised * Len(result.trades) = 0
    THEN Raised("division by zero")
    ELSE LET n == Len(result.trades)
             prices == [k \in 1..n |-> result.trades[k].price]
             slippages == [k \in 1..n |-> result.trades[k].slippage]
             low_slippage_trades == SelectSeq(result.trades, low_slippage)
             deviations == price_deviations(result)
         IN  [status |-> "ok",
              volatility |-> 0,
              avg_slippage |-> Mean(slippages),
              max_slippage |-> MaxOf(slippages),
              liquidity_depth |-> RoundDiv(Len(low_slippage_trades) * 100, n),
              price_impact |-> IF result.total_volume > 0 /\ n > 1
                               THEN FDiv(prices[n] - prices[1], result.total_volume)
                               ELSE 0,
              market_efficiency |-> IF deviations # <<>> THEN PriceScale - Mean(deviations) ELSE PriceScale,
              graduation_efficiency |-> IF result.graduated
                                        THEN PriceScale
                                        ELSE Min(PriceScale, FDiv(result.final_virtual_raised, result.trades[1].virtual_raised * n))]

\* calculate_metrics(results[k]) on the list that run_batch_simulations returned
EvalMetrics(k) ==
    /\ pc = "done"
    /\ metrics = NoMetrics
    /\ Len(results[k].trades) <= 1
    /\ metrics' = [result |-> k] @@ calculate_metrics(results[k])
    /\ UNCHANGED <<curve_vars, base_curve, tax_rate, num_trades, pc, i, trades, total_volume, tax_collected, draws, step, results, draw_log>>

SimNext ==
    \/ run_simulation_begin
    \/ \E direction \in UniformDraws, whale \in UniformDraws, z \in NormalDraws : iteration(direction, whale, z)
    \/ run_simulation_return
    \/ run_batch_simulations_return
    \/ \E k \in 1..Len(results) : EvalMetrics(k)

SimSpec == SimInit /\ [][SimNext]_vars

\* the for statement goes on to its next index: among the steps of SimNext
\* the ones that advance i are the iterations, and some iteration is enabled
\* in every loop state that is in range and not graduated
loop_step == pc = "loop" /\ in_range(i, num_trades) /\ ~loop_breaks(graduated) /\ i' = i + 1

\* the scheduling of run_simulation: it is one synchronous thread, so the
\* loop takes its next iteration while it has one and returns after it
FairSimSpec == SimInit /\ [][SimNext]_vars /\ WF_i(loop_step) /\ WF_vars(run_simulation_return)

(***************************************************************************)
(* Properties of the simulation engine and of calculate_metrics.           *)
(***************************************************************************)
\* C13: a run makes at most numTrades iterations and records at most one
\* trade per iteration; from a loop state with the curve graduated the only
\* step is the return of the run, which changes neither the trades nor the
\* curve; and every run that has started returns.
RunStopsAtGraduationOrBudget ==
    /\ [](i <= num_trades /\ Len(trades) <= i)
    /\ [][(pc = "loop" /\ graduated) => (pc' = "batch" /\ trades' = trades /\ Copy' = Copy)]_vars
    /\ (pc = "loop") ~> (pc = "batch")

\* C13 witness: a run returned after a trade graduated the curve, with
\* iterations of its budget left.
RunStoppedAtGraduation ==
    /\ pc = "batch"
    /\ Len(results) >= 1
    /\ graduated
    /\ trades # <<>>
    /\ i < num_trades

\* C14: every run starts on a copy with tokensSold = 0, currencyRaised = 0
\* and graduated = false, no step changes the base curve, and the batch
\* returns exactly numSimulations results.
RunStartsFromFreshCopy ==
    /\ [][(pc = "batch" /\ pc' = "loop") => (tokens_sold' = 0 /\ virtual_raised' = 0 /\ ~graduated')]_vars
    /\ [][base_curve' = base_curve]_vars
    /\ [](Len(results) <= NumSimulations /\ (pc = "done" => Len(results) = NumSimulations))

\* C14 witness: a second run starts at zero on an engine whose base curve
\* was bought on, after a first run that sold tokens of its copy.
SecondRunStarted ==
    /\ pc = "loop"
    /\ i = 0
    /\ Len(results) >= 1
    /\ results[1].final_tokens_sold > 0
    /\ base_curve.tokens_sold > 0
    /\ tokens_sold = 0

\* C15: an iteration whose curve.buy or curve.sell raised appended no trade,
\* left the curve copy and totalVolume as they were, and was followed by the
\* next loop index; and the run it belongs to returns its result.
RaisedTradeIsSkipped ==
    /\ [](step.outcome = "raised" => /\ Len(trades) = step.trades_before
                                     /\ Copy = step.before
                                     /\ total_volume = step.volume_before
                                     /\ i = step.i + 1)
    /\ (step.outcome = "raised" /\ pc = "loop") ~> (pc = "batch")

\* C15 witness: a run returned whose second iteration raised, after a first
\* iteration that recorded no trade either.
RaisedRunReturned ==
    /\ step.outcome = "raised"
    /\ step.i > 0
    /\ step.tax_before > 0
    /\ trades = <<>>
    /\ pc = "batch"
    /\ Len(results) >= 1

\* C17: with numTrades = 0 every result has no trades, graduated = false,
\* finalTokensSold = 0, finalCurrencyRaised = 0, totalVolume = 0,
\* taxCollected = 0 and finalPrice = getPrice(0).
NoTradesRequestedGivesEmptyResult ==
    num_trades = 0 =>
        \A k \in 1..Len(results) :
            results[k] = [trades |-> <<>>, graduated |-> FALSE, final_price |-> get_price(curve, 0),
                          final_tokens_sold |-> 0, final_virtual_raised |-> 0,
                          total_volume |-> 0, tax_collected |-> 0]

\* C17 witness: a batch with numTrades = 0 returned, on a taxing engine
\* whose base curve is graduated.
EmptyBatchReturned ==
    /\ num_trades = 0
    /\ pc = "done"
    /\ Len(results) = NumSimulations
    /\ base_curve.graduated
    /\ tax_rate > 0

\* C18: two runs of the batch that received the same sequence of draws
\* returned the same SimulationResult, trades included.
SameDrawsSameResult ==
    \A a \in 1..Len(results) : \A b \in 1..Len(results) :
        draw_log[a] = draw_log[b] => results[a] = results[b]

\* C18 witness: two runs received the same draws and recorded two trades
\* each, on an engine whose base curve was bought on.
SameDrawsTwice ==
    /\ Len(results) >= 2
    /\ draw_log[1] = draw_log[2]
    /\ Len(results[1].trades) >= 2
    /\ base_curve.tokens_sold > 0

\* calculate_metrics was evaluated on a result without trades
MetricsOfNoTrades == metrics.status # "none" /\ results[metrics.result].trades = <<>>

\* C19: calculate_metrics on a result with no trades raises nothing and
\* returns every one of the seven metrics as 0.
NoTradesNoMetrics ==
    MetricsOfNoTrades =>
        /\ metrics.status = "ok"
        /\ metrics.volatility = 0
        /\ metrics.avg_slippage = 0
        /\ metrics.max_slippage = 0
        /\ metrics.liquidity_depth = 0
        /\ metrics.price_impact = 0
        /\ metrics.market_efficiency = 0
        /\ metrics.graduation_efficiency = 0

\* C19 witness: the metrics of a run that made iterations, collected tax and
\* recorded no trade.
MetricsOfSkippedRun ==
    /\ MetricsOfNoTrades
    /\ num_trades > 0
    /\ results[metrics.result].tax_collected > 0

\* C20: an iteration calls curve.sell only if its direction draw is below
\* sellProbability and tokensSold > 0 before it; every iteration for which
\* that does not hold calls curve.buy; so the first iteration of a run
\* calls curve.buy.
SellOnlyWhenDrawnAndSupplied ==
    step.called # "new" =>
        /\ step.called = "sell" => (step.direction < trade_params.sell_probability /\ step.before.tokens_sold > 0)
        /\ ~(step.direction < trade_params.sell_probability /\ step.before.tokens_sold > 0) => step.called = "buy"
        /\ step.i = 0 => step.called = "buy"

\* C20 witness: an iteration sold tokens and recorded the trade.
SellRecorded ==
    /\ step.called = "sell"
    /\ step.outcome = "recorded"
    /\ tokens_sold < step.before.tokens_sold
    /\ tokens_sold > 0

(***************************************************************************)
(* Construction with arguments outside the data model.  __init__ stores    *)
(* its arguments and checks none of them.                                  *)
(***************************************************************************)
\* constructor arguments with a total supply or a graduation threshold that
\* is zero or negative
InvalidCurves ==
    {[c EXCEPT !.total_supply = 0] : c \in Curves}
        \cup {[c EXCEPT !.graduation_threshold = 0] : c \in Curves}
        \cup {[c EXCEPT !.graduation_threshold = -1] : c \in Curves}

\* BondingCurve.__init__ called with any arguments
ConstructInit ==
    /\ curve \in Curves \cup InvalidCurves
    /\ tokens_sold = 0
    /\ virtual_raised = 0
    /\ graduated = FALSE
    /\ last = NoCall
    /\ calls = 0
    /\ probe = NoProbe
    /\ NoEngine

ConstructSpec == ConstructInit /\ [][Next]_vars

\* C16: a curve on which buy or sell was called has totalSupply > 0 and
\* graduationThreshold > 0, construction with other arguments having failed.
TradedCurveIsValid ==
    last.op # "new" => (curve.total_supply > 0 /\ curve.graduation_threshold > 0)

(***************************************************************************)
(* Properties of the trades that run_simulation records.                   *)
(***************************************************************************)
\* C21: every sell that run_simulation executes sells an amount that is > 0
\* and at most a tenth of tokensSold before it (the tenth rounded to the
\* grid), is not rejected, and leaves tokensSold > 0.
ExecutedSellIsCapped ==
    step.called = "sell" =>
        /\ step.arg > 0
        /\ 2 * 10 * step.arg <= 2 * step.before.tokens_sold + 10
        /\ step.status = "ok"
        /\ tokens_sold > 0

\* C21 witness: a sell was executed for less than trade_size / current_price,
\* the cap being the smaller amount.
CappedSellExecuted ==
    /\ step.called = "sell"
    /\ step.status = "ok"
    /\ step.expected_price > 0
    /\ step.arg < RoundDiv(PriceScale * step.trade_size, step.expected_price)

\* the last trade recorded
LastTrade == trades[Len(trades)]

\* C22: a buy of drawn size passes size - size * r to curve.buy and adds
\* size * r to taxCollected, and the curve's currencyRaised grows by the
\* amount passed unless the buy filled the supply; an executed sell passes the
\* capped token amount, adds currencyOut * r to taxCollected, records
\* currencyOut - currencyOut * r as proceeds and lowers currencyRaised by
\* currencyOut.
TaxIsTakenOutsideTheCurve ==
    /\ step.called = "buy" =>
        /\ step.arg = step.trade_size - RoundDiv(step.trade_size * tax_rate, 100)
        /\ tax_collected = step.tax_before + RoundDiv(step.trade_size * tax_rate, 100)
        /\ (step.status = "ok" /\ tokens_sold < curve.total_supply) =>
               virtual_raised = step.before.virtual_raised + step.arg
    /\ (step.called = "sell" /\ step.status = "ok") =>
        /\ tokens_sold = step.before.tokens_sold - step.arg
        /\ tax_collected = step.tax_before + RoundDiv(step.out * tax_rate, 100)
        /\ LastTrade.virtual_amount = step.out - RoundDiv(step.out * tax_rate, 100)
        /\ virtual_raised = step.before.virtual_raised - step.out

\* C22 witness: a taxed sell was recorded after a taxed buy.
TaxedSellRecorded ==
    /\ step.called = "sell"
    /\ step.status = "ok"
    /\ tax_rate > 0
    /\ step.tax_before > 0
    /\ tax_collected > step.tax_before
    /\ LastTrade.virtual_amount < step.out

\* C23: the slippage of every recorded trade, buy or sell, is
\* (executedPrice - expectedPrice) / expectedPrice, expectedPrice being
\* getPrice at the supply before the trade, and 0 when expectedPrice <= 0.
SlippageIsSignedDeviation ==
    step.outcome = "recorded" =>
        /\ step.expected_price = get_price(curve, step.before.tokens_sold)
        /\ LastTrade.price = step.price
        /\ LastTrade.slippage = IF step.expected_price > 0
                                THEN FDiv(step.price - step.expected_price, step.expected_price)
                                ELSE 0

\* C24: a buy whose tokensOut is zero or negative records no Trade and leaves
\* the curve copy as it was, and every recorded buy has token_amount > 0 and
\* a positive executed price.
RecordedBuyHasTokens ==
    /\ (step.called = "buy" /\ step.status = "ok" /\ step.out <= 0) =>
           (Len(trades) = step.trades_before /\ Copy = step.before)
    /\ \A k \in 1..Len(trades) :
           trades[k].trade_type = "buy" => (trades[k].token_amount > 0 /\ trades[k].price > 0)

\* the sum of the currency amounts stored in a sequence of Trade records
RECURSIVE TradeAmounts(_)
TradeAmounts(ts) == IF ts = <<>> THEN 0 ELSE ts[1].virtual_amount + TradeAmounts(Tail(ts))

\* C25: an iteration adds to totalVolume the drawn size if it recorded a buy,
\* the curve's currencyOut if it recorded a sell, and nothing if it recorded
\* no trade; a result without trades has totalVolume 0, and with taxRate = 0
\* totalVolume is the sum of the currency amounts of the Trade records.
VolumeIsSumOfGrossAmounts ==
    /\ step.called # "new" =>
           total_volume = step.volume_before
                              + (IF step.outcome # "recorded" THEN 0
                                 ELSE IF step.called = "buy" THEN step.trade_size ELSE step.out)
    /\ \A k \in 1..Len(results) :
           /\ results[k].trades = <<>> => results[k].total_volume = 0
           /\ tax_rate = 0 => results[k].total_volume = TradeAmounts(results[k].trades)

\* C25 witness: a run with tax returned whose last iteration recorded a sell
\* that paid out currency.
TaxedSellCounted ==
    /\ pc = "batch"
    /\ Len(results) >= 1
    /\ tax_rate > 0
    /\ step.called = "sell"
    /\ step.outcome = "recorded"
    /\ LastTrade.virtual_amount < step.out
    /\ results[Len(results)].total_volume = step.volume_before + step.out

\* C26: a recorded Trade holds the curve's tokensSold and currencyRaised
\* right after it and the index of its iteration; a result with trades has
\* finalTokensSold and finalCurrencyRaised equal to the values in its last
\* Trade, every result has finalPrice = getPrice(finalTokensSold), and the
\* indices of its trades are strictly increasing within [0, numTrades).
TradesRecordCurveState ==
    /\ step.outcome = "recorded" =>
           /\ LastTrade.total_supply = tokens_sold
           /\ LastTrade.virtual_raised = virtual_raised
           /\ LastTrade.timestamp = step.i
    /\ \A k \in 1..Len(results) :
           LET result == results[k]
               n == Len(result.trades)
           IN  /\ n > 0 => /\ result.final_tokens_sold = result.trades[n].total_supply
                           /\ result.final_virtual_raised = result.trades[n].virtual_raised
               /\ result.final_price = get_price(curve, result.final_tokens_sold)
               /\ \A j \in 1..n : result.trades[j].timestamp \in 0..(num_trades - 1)
               /\ \A j \in 1..(n - 1) : result.trades[j].timestamp < result.trades[j + 1].timestamp

\* C26 witness: a run returned whose first iteration recorded a trade that
\* moved the supply and whose second iteration recorded none.
RunEndedAfterUnrecordedIteration ==
    /\ pc = "batch"
    /\ Len(results) >= 1
    /\ Len(results[Len(results)].trades) = 1
    /\ results[Len(results)].trades[1].timestamp = 0
    /\ results[Len(results)].final_tokens_sold > 0
    /\ step.i = 1
    /\ step.outcome # "recorded"

\* C27: a result has graduated = true only if its last recorded trade is a
\* buy with currencyRaised >= graduationThreshold after it; every earlier
\* recorded trade has currencyRaised < graduationThreshold after it; and a
\* result with graduated = false has finalCurrencyRaised < graduationThreshold.
GraduationMatchesTrades ==
    \A k \in 1..Len(results) :
        LET result == results[k]
            n == Len(result.trades)
        IN  /\ result.graduated =>
                   /\ n > 0
                   /\ result.trades[n].trade_type = "buy"
                   /\ result.trades[n].virtual_raised >= curve.graduation_threshold
            /\ \A j \in 1..(n - 1) : result.trades[j].virtual_raised < curve.graduation_threshold
            /\ ~result.graduated => result.final_virtual_raised < curve.graduation_threshold

(***************************************************************************)
(* The currency a curve holds against the cost of its supply.              *)
(***************************************************************************)

\* what the instance holds beyond the cost of the supply s, for a holding r
held_beyond_cost(c, s, r) == r - calculate_cost(c, 0, s)

\* C28, as stated: on the Linear curve, after any successful buys and sells,
\* virtual_raised is calculate_cost(0, tokens_sold), and is never negative
LinearRaisedIsCostOfSupply ==
    curve.kind = "Linear" =>
        /\ virtual_raised = calculate_cost(curve, 0, tokens_sold)
        /\ virtual_raised >= 0

\* C28, amended: on the Linear curve every sell and every clamped buy moves
\* virtual_raised by exactly the change of calculate_cost(0, tokens_sold); a
\* buy that is not clamped moves it by that change up to the rounding of the
\* square root, at most half a unit of tokens at the price of the new supply
LinearRaisedFollowsCostOfSupply ==
    (curve.kind = "Linear" /\ (BuyReturned \/ SellReturned)) =>
        LET before == held_beyond_cost(curve, last.tokens_sold, last.virtual_raised)
            after == held_beyond_cost(curve, tokens_sold, virtual_raised)
        IN  IF BuyWasNotClamped
            THEN 2 * PriceScale * Abs(after - before) <= get_price(curve, tokens_sold)
            ELSE after = before

\* C28: tokens bought in two buys whose square roots are exact, one of them
\* sold again: the Linear curve holds exactly the cost of its supply
LinearSellAfterExactBuys ==
    /\ curve.kind = "Linear"
    /\ SellReturned
    /\ calls >= 3
    /\ tokens_sold > 0
    /\ virtual_raised = calculate_cost(curve, 0, tokens_sold)
    /\ last.virtual_raised = calculate_cost(curve, 0, last.tokens_sold)

\* C29, as stated: on every curve a buy adds to virtual_raised at most
\* calculate_cost(tokens_sold, total_supply) of the instance before the call,
\* the cost of all remaining supply, and issues at most the remaining supply
BuyAddsAtMostCostOfRemainingSupply ==
    BuyReturned =>
        /\ virtual_raised - last.virtual_raised <= calculate_cost(curve, last.tokens_sold, curve.total_supply)
        /\ tokens_sold <= curve.total_supply

\* C30, as stated: at the end of every run_simulation tax_collected is
\* tax_rate * total_volume, up to the rounding of the tax of each recorded
\* trade (half a unit each): only recorded trades are taxed
TaxIsRateTimesVolume ==
    \A n \in 1..Len(results) :
        LET result == results[n]
        IN  2 * Abs(100 * result.tax_collected - tax_rate * result.total_volume) <= 100 * Len(result.trades)

====
